---- MODULE Spec2Model ----
(***************************************************************************)
(* A model of capacitor-mwp-client:                                        *)
(*   - postRequestToWallet (the round trip over the embedded browser and   *)
(*     the deep-link return channel), one invocation on a web wallet;      *)
(*   - KeyManager (own key pair, peer public key, derived shared secret    *)
(*     over the scoped key-value storage).                                 *)
(* The two components share no state; each has its own specification.      *)
(***************************************************************************)
EXTENDS Integers, Sequences, FiniteSets, TLC

(***************************************************************************)
(* Bounds of the model.                                                    *)
(***************************************************************************)
\* appUrlOpen events the host delivers during one invocation
MaxDeepLinks == 2
\* key pairs generateKeyPair() may produce in one run
MaxKeyPairs == 2
\* KeyManager calls issued in one run
MaxCalls == 3
\* callers of one KeyManager
NumProcs == 2
\* process restarts (a new KeyManager over the same storage) in one run
MaxRestarts == 1
\* connector calls (connect, disconnect, switchChain) issued in one run
MaxConnectorCalls == 3
\* provider events delivered to the connector in one run
MaxProviderEvents == 2

(***************************************************************************)
(* Round trip: values.                                                     *)
(***************************************************************************)
\* A URL is the sequence <<scheme, query>>; the prefix test of the source
\* (event.url.startsWith(appCustomScheme)) is a prefix test on sequences.
appCustomScheme == <<"myapp">>

Urls == { <<"myapp", "r1">>, <<"myapp", "r2">>, <<"myapp", "garbage">>,
          <<"other", "r1">> }

startsWith(url, prefix) ==
    /\ Len(prefix) <= Len(url)
    /\ SubSeq(url, 1, Len(prefix)) = prefix

\* new URL(event.url).searchParams
searchParams(url) == url[2]

\* decodeResponseURLParams throws on a malformed query
decodeThrows(params) == params \notin {"r1", "r2"}

\* decodeResponseURLParams: the response message carried by the query
decodeResponseURLParams(params) ==
    CASE params = "r1" -> <<"response", 1>>
      [] params = "r2" -> <<"response", 2>>

\* standardErrors.provider.userRejectedRequest()
userRejectedRequest == <<"error", "userRejectedRequest">>

PendingPromise == [state |-> "pending", value |-> <<"none">>]

\* resolve / reject of the promise: only the first call settles it
resolve(p, v) ==
    IF p.state = "pending" THEN [state |-> "resolved", value |-> v] ELSE p

reject(p, e) ==
    IF p.state = "pending" THEN [state |-> "rejected", value |-> e] ELSE p

(***************************************************************************)
(* KeyManager: values.                                                     *)
(***************************************************************************)
\* null; like every key value, a tuple
Null == <<"null">>

OWN_PRIVATE_KEY == [storageKey |-> "ownPrivateKey", keyType |-> "private"]
OWN_PUBLIC_KEY == [storageKey |-> "ownPublicKey", keyType |-> "public"]
PEER_PUBLIC_KEY == [storageKey |-> "peerPublicKey", keyType |-> "public"]

StorageKeys == {"ownPrivateKey", "ownPublicKey", "peerPublicKey"}

\* the public keys a peer may send
PeerKeys == { <<"public", "p1">>, <<"public", "p2">> }

\* generateKeyPair(): the n-th pair the cipher produces
keyPair(n) == << <<"private", n>>, <<"public", n>> >>

privateKey(pair) == pair[1]

publicKey(pair) == pair[2]

\* exportKeyToHexString(kind, key) and importKeyFromHexString(kind, hex)
exportKeyToHexString(kind, key) == <<"hex", kind, key[2]>>

importKeyFromHexString(kind, hex) == <<kind, hex[3]>>

\* deriveSharedSecret(privateKey, publicKey)
deriveSharedSecret(priv, pub) == <<"secret", priv[2], pub[2]>>

Procs == 1 .. NumProcs

Idle == [op |-> "none", pc |-> "idle", key |-> Null, id |-> 0, tmp |-> Null]

NoReturn == [op |-> "none", outcome |-> "none", value |-> Null]

(***************************************************************************)
(* Connector: values.                                                      *)
(***************************************************************************)
\* the provider events the connector listens to
ProviderEvents == {"accountsChanged", "chainChanged", "disconnect"}

\* A message is a sequence of words.  The errors a provider request may
\* reject with: a user refusal in the wording the connector recognizes, a
\* user refusal in another wording, a transport failure, the chain-not-added
\* error (code 4902), and a refusal worded "Request rejected".
ProviderErrors ==
    { [name |-> "ProviderRpcError", code |-> 4001,
       message |-> <<"User", "denied", "account", "authorization">>, cause |-> <<>>],
      [name |-> "ProviderRpcError", code |-> 4001,
       message |-> <<"declined">>, cause |-> <<>>],
      [name |-> "ProviderRpcError", code |-> -32603,
       message |-> <<"network", "down">>, cause |-> <<>>],
      [name |-> "ProviderRpcError", code |-> 4902,
       message |-> <<"Unrecognized", "chain">>, cause |-> <<>>],
      [name |-> "ProviderRpcError", code |-> -32000,
       message |-> <<"Request", "rejected">>, cause |-> <<>>] }

\* the /i flag of the pattern: a word in lower case
lower(w) ==
    CASE w = "User" -> "user"
      [] w = "Request" -> "request"
      [] w = "Details" -> "details"
      [] w = "Unrecognized" -> "unrecognized"
      [] w = "An" -> "an"
      [] OTHER -> w

\* /(user closed modal|accounts received is empty|user denied account|request rejected)/
RejectionPhrases ==
    { <<"user", "closed", "modal">>,
      <<"accounts", "received", "is", "empty">>,
      <<"user", "denied", "account">>,
      <<"request", "rejected">> }

\* pattern.test(message): some phrase occurs in the message, case ignored
matchesRejection(message) ==
    \E ph \in RejectionPhrases :
        \E i \in 1 .. Len(message) :
            /\ i + Len(ph) - 1 <= Len(message)
            /\ \A j \in 1 .. Len(ph) : lower(message[i + j - 1]) = ph[j]

\* new UserRejectedRequestError(cause): code 4001; the message ends with the
\* details, which are the message of the cause
UserRejectedRequestError(cause) ==
    [name |-> "UserRejectedRequestError", code |-> 4001,
     message |-> <<"User", "rejected", "the", "request", "Details">> \o cause.message,
     cause |-> <<cause>>]

\* new ChainNotConfiguredError()
ChainNotConfiguredError ==
    [name |-> "ChainNotConfiguredError", code |-> 0,
     message |-> <<"Chain", "not", "configured">>, cause |-> <<>>]

\* new SwitchChainError(cause): code 4902
SwitchChainError(cause) ==
    [name |-> "SwitchChainError", code |-> 4902,
     message |-> <<"An", "error", "occurred", "when", "attempting", "to",
                   "switch", "chain", "Details">> \o cause.message,
     cause |-> <<cause>>]

\* a catch block that turns every error into UserRejectedRequestError
connectRethrowAlways(error) == UserRejectedRequestError(error)

\* catch block of connect: the error connect throws for a caught error
connectRethrow(error) ==
    IF matchesRejection(error.message)
    THEN UserRejectedRequestError(error)
    ELSE error

\* config.chains: four chains, one for each combination of a default block
\* explorer and a default RPC URL being configured; the provider starts on
\* chain 1
Chains ==
    { [id |-> 1, blockExplorer |-> <<"explorer.default">>, rpc |-> <<"rpc.default">>],
      [id |-> 2, blockExplorer |-> <<"explorer.default">>, rpc |-> <<>>],
      [id |-> 3, blockExplorer |-> <<>>, rpc |-> <<"rpc.default">>],
      [id |-> 4, blockExplorer |-> <<>>, rpc |-> <<>>] }

\* chain ids a caller may ask for: 0 is "no chainId", 5 is not configured
ChainIds == 0 .. 5

\* config.chains.find((chain) => chain.id === chainId), as <<>> or <<chain>>
findChain(chainId) ==
    IF \E c \in Chains : c.id = chainId
    THEN << CHOOSE c \in Chains : c.id = chainId >>
    ELSE <<>>

\* An optional value is <<>> (undefined) or <<v>>.  A list of URLs a caller
\* may supply: none, the empty list, or one URL.
UrlOptions == { <<>>, << <<>> >>, << <<"caller.url">> >> }

\* addEthereumChainParameter of switchChain: undefined, or the two lists
AddChainParameters ==
    { <<>> } \cup
    { << [blockExplorerUrls |-> b, rpcUrls |-> r] >> : b \in UrlOptions, r \in UrlOptions }

\* addEthereumChainParameter?.blockExplorerUrls, addEthereumChainParameter?.rpcUrls
callerBlockExplorerUrls(param) ==
    IF param = <<>> THEN <<>> ELSE param[1].blockExplorerUrls

callerRpcUrls(param) == IF param = <<>> THEN <<>> ELSE param[1].rpcUrls

\* blockExplorerUrls of the add-chain payload: a list the caller supplied is
\* truthy even when empty
blockExplorerUrlsOf(param, chain) ==
    IF callerBlockExplorerUrls(param) # <<>>
    THEN callerBlockExplorerUrls(param)[1]
    ELSE IF chain.blockExplorer # <<>>
         THEN << chain.blockExplorer[1] >>
         ELSE <<>>

\* rpcUrls of the add-chain payload: rpcUrls?.length is falsy for a missing
\* and for an empty list; [chain.rpcUrls.default?.http[0] ?? ""]
rpcUrlsOf(param, chain) ==
    IF callerRpcUrls(param) # <<>> /\ Len(callerRpcUrls(param)[1]) > 0
    THEN callerRpcUrls(param)[1]
    ELSE << IF chain.rpc # <<>> THEN chain.rpc[1] ELSE "" >>

\* const addEthereumChain = { blockExplorerUrls, chainId, ..., rpcUrls }
addEthereumChain(param, chain) ==
    [ chainId |-> chain.id,
      blockExplorerUrls |-> blockExplorerUrlsOf(param, chain),
      rpcUrls |-> rpcUrlsOf(param, chain) ]

\* no connector call in progress
NoCall ==
    [op |-> "none", pc |-> "idle", id |-> 0, chainId |-> 0, param |-> <<>>,
     currentChainId |-> 0]

NoResult == [op |-> "none", outcome |-> "none", error |-> <<>>, chainId |-> 0]

NotRaised == [step |-> "none", error |-> <<>>]

VARIABLES
    \* ---- round trip: the closure variables of one invocation ----
    listener,               \* TRUE when the appUrlOpen handle is assigned
    browserClosedListener,  \* TRUE when the browserClosed handle is assigned
    timeoutId,              \* "armed" | "cleared" | "fired"
    promise,                \* the promise returned to the caller
    startPc,                \* position of start(): the pending await, or its end
    closing,                \* url -> appUrlOpen handlers awaiting InAppBrowser.close
    timeoutPc,              \* timeout handler: "idle" | "awaitClose" | "done" | "threw"
    \* ---- round trip: the host ----
    appUrlOpenRegistered,   \* the host holds the appUrlOpen callback
    browserClosedRegistered,\* the host holds the browserClosed callback
    browser,                \* embedded browser: "none" | "open" | "closed"
    \* ---- round trip: history ----
    delivered,              \* appUrlOpen events delivered
    closeCalls,             \* calls of InAppBrowser.close
    listenerRemoves,        \* calls of listener.remove
    browserClosedRemoves,   \* calls of browserClosedListener.remove
    settleCalls,            \* calls of resolve or reject
    lateBody,               \* a branch body started after a resolve/reject call
    escaped,                \* exceptions that left a handler uncaught
    first,                  \* the first race event: <<kind, url, startPc then>>
    atCatch,                \* promise state when the catch block of start() ran
    timerRanAfterCatch,     \* the timeout handler started after the catch block
    matched,                \* appUrlOpen events whose URL matched the scheme
    dismissedAt,            \* `matched` when browserClosed was handled, else -1
    \* ---- KeyManager: the fields of the object ----
    ownPrivateKey,
    ownPublicKey,
    peerPublicKey,
    sharedSecret,
    \* ---- KeyManager: storage and calls ----
    storage,                \* storage key -> hex string or Null
    calls,                  \* caller -> the call it has in progress
    removing,               \* removeItem requests of clear() not yet answered
    \* ---- KeyManager: history ----
    failedRemovals,         \* removeItem requests of clear() that were rejected
    replaced,               \* pair the current call generated over an orphaned half, else Null
    orphans,                \* own-key halves found without their other half, then replaced
    clearedAt,              \* nextPair when clear() last returned, 0 if it never did
    callsMade,              \* calls issued so far
    nextPair,               \* number of the next pair generateKeyPair yields
    restarts,               \* restarts so far
    ret,                    \* how the call that ended last ended
    lastPeer,               \* key of the latest setPeerPublicKey on this manager
    earlierPeers,           \* keys of the setPeerPublicKey calls before it
    clearedOk,              \* clear() returned and no setPeerPublicKey since
    \* ---- connector: the closure variables ----
    walletProvider,         \* TRUE when the provider has been created
    accountsChanged,        \* bound handler (its number), 0 when undefined
    chainChanged,           \* bound handler (its number), 0 when undefined
    disconnect,             \* bound handler (its number), 0 when undefined
    \* ---- connector: the provider and the calls ----
    registered,             \* provider event -> handlers registered with it
    providerChain,          \* chain id the wallet is on
    wcCall,                 \* the connector call in progress
    pendingOnDisconnect,    \* onDisconnect handlers awaiting getProvider
    \* ---- connector: history ----
    wcCalls,                \* connector calls issued so far
    wcEvents,               \* provider events delivered so far
    wcRet,                  \* how the connector call that ended last ended
    raised,                 \* the error a step of the last connect raised
    tornDown,               \* disconnect()/onDisconnect() completed, nothing bound since
    addChainRequest         \* <<param, chain, payload>> of the last wallet_addEthereumChain

rtVars == << listener, browserClosedListener, timeoutId, promise, startPc,
             closing, timeoutPc, appUrlOpenRegistered, browserClosedRegistered,
             browser, delivered, closeCalls, listenerRemoves,
             browserClosedRemoves, settleCalls, lateBody, escaped, first,
             atCatch, timerRanAfterCatch, matched, dismissedAt >>

kmVars == << ownPrivateKey, ownPublicKey, peerPublicKey, sharedSecret,
             storage, calls, removing, callsMade, nextPair, restarts, ret,
             lastPeer, earlierPeers, clearedOk, clearedAt, orphans, replaced, failedRemovals >>

wcVars == << walletProvider, accountsChanged, chainChanged, disconnect,
             registered, providerChain, wcCall, pendingOnDisconnect, wcCalls,
             wcEvents, wcRet, raised, tornDown, addChainRequest >>

vars == << rtVars, kmVars, wcVars >>

(***************************************************************************)
(* The initial state.                                                      *)
(* Round trip: the state after the synchronous part of the call.  The      *)
(* promise executor has armed the timer, built the request URL and called  *)
(* start(), which called setupListener(), which called App.addListener and *)
(* is suspended on its promise.                                            *)
(***************************************************************************)
Init ==
    /\ listener = FALSE
    /\ browserClosedListener = FALSE
    /\ timeoutId = "armed"
    /\ promise = PendingPromise
    /\ startPc = "awaitAppListener"
    /\ closing = [u \in Urls |-> 0]
    /\ timeoutPc = "idle"
    /\ appUrlOpenRegistered = TRUE
    /\ browserClosedRegistered = FALSE
    /\ browser = "none"
    /\ delivered = 0
    /\ closeCalls = 0
    /\ listenerRemoves = 0
    /\ browserClosedRemoves = 0
    /\ settleCalls = 0
    /\ lateBody = FALSE
    /\ escaped = 0
    /\ first = <<"none">>
    /\ atCatch = "none"
    /\ timerRanAfterCatch = FALSE
    /\ matched = 0
    /\ dismissedAt = -1
    \* KeyManager: a new manager over an empty storage (a fresh install)
    /\ ownPrivateKey = Null
    /\ ownPublicKey = Null
    /\ peerPublicKey = Null
    /\ sharedSecret = Null
    /\ storage = [k \in StorageKeys |-> Null]
    /\ calls = [p \in Procs |-> Idle]
    /\ removing = {}
    /\ callsMade = 0
    /\ nextPair = 1
    /\ restarts = 0
    /\ ret = NoReturn
    /\ lastPeer = Null
    /\ earlierPeers = {}
    /\ clearedOk = FALSE
    /\ clearedAt = 0
    /\ orphans = {}
    /\ replaced = Null
    /\ failedRemovals = {}
    \* connector: just created, nothing bound, the wallet on chain 1
    /\ walletProvider = FALSE
    /\ accountsChanged = 0
    /\ chainChanged = 0
    /\ disconnect = 0
    /\ registered = [ev \in ProviderEvents |-> {}]
    /\ providerChain = 1
    /\ wcCall = NoCall
    /\ pendingOnDisconnect = 0
    /\ wcCalls = 0
    /\ wcEvents = 0
    /\ wcRet = NoResult
    /\ raised = NotRaised
    /\ tornDown = FALSE
    /\ addChainRequest = <<>>

\* clearTimeout(timeoutId): a no-op on a timer that fired or was cleared
clearTimeout(t) == IF t = "armed" THEN "cleared" ELSE t

\* the first race event is recorded once
noteFirst(kind, url) ==
    first' = IF first = <<"none">> THEN <<kind, url, startPc>> ELSE first

\* a branch body starts: remember whether resolve/reject was called before
noteBody == lateBody' = (lateBody \/ settleCalls > 0)

(***************************************************************************)
(* Round trip: the clean-up each branch performs.  Each yields the host    *)
(* registrations, the timer and the remove() calls after the clean-up; a   *)
(* handle that is still null is skipped (if (listener) listener.remove()). *)
(* remove() is not awaited: its promise is dropped, so its outcome cannot  *)
(* change the control flow; the host removes the callback at the call.     *)
(***************************************************************************)
removeListeners ==
    [ appReg |-> appUrlOpenRegistered /\ ~listener,
      bcReg  |-> browserClosedRegistered /\ ~browserClosedListener,
      lRem   |-> listenerRemoves + (IF listener THEN 1 ELSE 0),
      bRem   |-> browserClosedRemoves + (IF browserClosedListener THEN 1 ELSE 0),
      timer  |-> timeoutId ]

\* appUrlOpen handler, "clean up"
appUrlOpenCleanup == [removeListeners EXCEPT !.timer = clearTimeout(timeoutId)]

\* a browserClosed handler that forgets clearTimeout(timeoutId)
browserClosedCleanupKeepsTimer == removeListeners

\* browserClosed handler
browserClosedCleanup == [removeListeners EXCEPT !.timer = clearTimeout(timeoutId)]

\* timeout handler: the timer has fired, nothing to clear
timeoutCleanup == [removeListeners EXCEPT !.timer = "fired"]

\* catch block of start()
catchCleanup == [removeListeners EXCEPT !.timer = clearTimeout(timeoutId)]

apply(c) ==
    /\ appUrlOpenRegistered' = c.appReg
    /\ browserClosedRegistered' = c.bcReg
    /\ listenerRemoves' = c.lRem
    /\ browserClosedRemoves' = c.bRem
    /\ timeoutId' = c.timer

settle(p) ==
    /\ promise' = p
    /\ settleCalls' = settleCalls + 1

\* InAppBrowser.close() succeeded: an open browser view is gone
closed(b) == IF b = "open" THEN "closed" ELSE b

(***************************************************************************)
(* Round trip: start() and setupListener().                                *)
(***************************************************************************)
\* catch (error) { ...; reject(userRejectedRequest()) }, entered because the
\* host call `failed` rejected; a registration the host refused does not exist
Catch(failed) ==
    /\ noteBody
    /\ noteFirst("launchFailure", <<>>)
    /\ apply([catchCleanup EXCEPT
                !.appReg = @ /\ failed # "appUrlOpen",
                !.bcReg = @ /\ failed # "browserClosed"])
    /\ atCatch' = promise.state
    /\ settle(reject(promise, userRejectedRequest))
    /\ startPc' = "caught"

\* listener = await App.addListener(...) resolves; setupListener goes on to
\* call InAppBrowser.addListener("browserClosed", ...) and awaits it
AppListenerResolved ==
    /\ startPc = "awaitAppListener"
    /\ listener' = TRUE
    /\ browserClosedRegistered' = TRUE
    /\ startPc' = "awaitBrowserListener"
    /\ UNCHANGED << kmVars, wcVars >>
    /\ UNCHANGED << browserClosedListener, timeoutId, promise, closing,
                    timeoutPc, appUrlOpenRegistered, browser, delivered,
                    closeCalls, listenerRemoves, browserClosedRemoves,
                    settleCalls, lateBody, escaped, first, atCatch,
                    timerRanAfterCatch, matched, dismissedAt >>

\* App.addListener rejects: nothing was registered (a registration that has
\* delivered an event exists, and does not reject); start() catches
AppListenerRejected ==
    /\ startPc = "awaitAppListener"
    /\ delivered = 0
    /\ Catch("appUrlOpen")
    /\ UNCHANGED << kmVars, wcVars >>
    /\ UNCHANGED << listener, browserClosedListener, closing, timeoutPc,
                    browser, delivered, closeCalls, escaped,
                    timerRanAfterCatch, matched, dismissedAt >>

\* browserClosedListener = await InAppBrowser.addListener(...) resolves;
\* setupListener returns and start() calls InAppBrowser.openInWebView
BrowserListenerResolved ==
    /\ startPc = "awaitBrowserListener"
    /\ browserClosedListener' = TRUE
    /\ startPc' = "awaitOpen"
    /\ UNCHANGED << kmVars, wcVars >>
    /\ UNCHANGED << listener, timeoutId, promise, closing, timeoutPc,
                    appUrlOpenRegistered, browserClosedRegistered, browser,
                    delivered, closeCalls, listenerRemoves,
                    browserClosedRemoves, settleCalls, lateBody, escaped,
                    first, atCatch, timerRanAfterCatch, matched, dismissedAt >>

\* InAppBrowser.addListener rejects: the browserClosed callback is not
\* registered; start() catches
BrowserListenerRejected ==
    /\ startPc = "awaitBrowserListener"
    /\ Catch("browserClosed")
    /\ UNCHANGED << kmVars, wcVars >>
    /\ UNCHANGED << listener, browserClosedListener, closing, timeoutPc,
                    browser, delivered, closeCalls, escaped,
                    timerRanAfterCatch, matched, dismissedAt >>

\* await InAppBrowser.openInWebView(...) resolves: the browser view is shown
\* and start() ends
OpenResolved ==
    /\ startPc = "awaitOpen"
    /\ browser' = "open"
    /\ startPc' = "launched"
    /\ UNCHANGED << kmVars, wcVars >>
    /\ UNCHANGED << listener, browserClosedListener, timeoutId, promise,
                    closing, timeoutPc, appUrlOpenRegistered,
                    browserClosedRegistered, delivered, closeCalls,
                    listenerRemoves, browserClosedRemoves, settleCalls,
                    lateBody, escaped, first, atCatch, timerRanAfterCatch,
                    matched, dismissedAt >>

\* InAppBrowser.openInWebView rejects; start() catches
OpenRejected ==
    /\ startPc = "awaitOpen"
    /\ Catch("openInWebView")
    /\ UNCHANGED << kmVars, wcVars >>
    /\ UNCHANGED << listener, browserClosedListener, closing, timeoutPc,
                    browser, delivered, closeCalls, escaped,
                    timerRanAfterCatch, matched, dismissedAt >>

(***************************************************************************)
(* Round trip: the appUrlOpen handler.                                     *)
(***************************************************************************)
\* The host delivers an appUrlOpen event to the registered callback.  A URL
\* that does not start with appCustomScheme is ignored; otherwise the handler
\* cleans up, calls InAppBrowser.close() and awaits it.
AppUrlOpen(url) ==
    /\ appUrlOpenRegistered
    /\ delivered < MaxDeepLinks
    /\ delivered' = delivered + 1
    /\ IF startsWith(url, appCustomScheme)
       THEN /\ noteBody
            /\ matched' = matched + 1
            /\ noteFirst("deepLink", url)
            /\ apply(appUrlOpenCleanup)
            /\ closeCalls' = closeCalls + 1
            /\ closing' = [closing EXCEPT ![url] = @ + 1]
       ELSE UNCHANGED << lateBody, first, appUrlOpenRegistered,
                         browserClosedRegistered, listenerRemoves,
                         browserClosedRemoves, timeoutId, closeCalls,
                         closing, matched >>
    /\ UNCHANGED << kmVars, wcVars >>
    /\ UNCHANGED << listener, browserClosedListener, promise, startPc,
                    timeoutPc, browser, settleCalls, escaped, atCatch,
                    timerRanAfterCatch, dismissedAt >>

\* "parse the response": try { resolve(decode(...)) } catch { reject(...) }
parseResponse(url) ==
    IF decodeThrows(searchParams(url))
    THEN reject(promise, userRejectedRequest)
    ELSE resolve(promise, decodeResponseURLParams(searchParams(url)))

\* await InAppBrowser.close() resolves in an appUrlOpen handler
AppUrlOpenCloseResolved(url) ==
    /\ closing[url] > 0
    /\ closing' = [closing EXCEPT ![url] = @ - 1]
    /\ browser' = closed(browser)
    /\ settle(parseResponse(url))
    /\ UNCHANGED << kmVars, wcVars >>
    /\ UNCHANGED << listener, browserClosedListener, timeoutId, startPc,
                    timeoutPc, appUrlOpenRegistered, browserClosedRegistered,
                    delivered, closeCalls, listenerRemoves,
                    browserClosedRemoves, lateBody, escaped, first, atCatch,
                    timerRanAfterCatch, matched, dismissedAt >>

\* await InAppBrowser.close() rejects in an appUrlOpen handler: the await is
\* outside the try block, so the exception leaves the handler
AppUrlOpenCloseRejected(url) ==
    /\ closing[url] > 0
    /\ closing' = [closing EXCEPT ![url] = @ - 1]
    /\ escaped' = escaped + 1
    /\ UNCHANGED << kmVars, wcVars >>
    /\ UNCHANGED << listener, browserClosedListener, timeoutId, promise,
                    startPc, timeoutPc, appUrlOpenRegistered,
                    browserClosedRegistered, browser, delivered, closeCalls,
                    listenerRemoves, browserClosedRemoves, settleCalls,
                    lateBody, first, atCatch, timerRanAfterCatch, matched,
                    dismissedAt >>

(***************************************************************************)
(* Round trip: the browserClosed handler.  The host reports a dismissal    *)
(* only of a browser view that is shown.                                   *)
(***************************************************************************)
BrowserClosed ==
    /\ browserClosedRegistered
    /\ browser = "open"
    /\ browser' = "closed"
    /\ noteBody
    /\ noteFirst("browserClosed", <<>>)
    /\ apply(browserClosedCleanup)
    /\ settle(reject(promise, userRejectedRequest))
    /\ dismissedAt' = matched
    /\ UNCHANGED << kmVars, wcVars >>
    /\ UNCHANGED << listener, browserClosedListener, startPc, closing,
                    timeoutPc, delivered, closeCalls, escaped, atCatch,
                    timerRanAfterCatch, matched >>

(***************************************************************************)
(* Round trip: the timeout handler.                                        *)
(***************************************************************************)
\* the 5-minute timer fires: remove the listeners, call InAppBrowser.close()
Timeout ==
    /\ timeoutId = "armed"
    /\ timeoutPc = "idle"
    /\ timeoutPc' = "awaitClose"
    /\ noteBody
    /\ noteFirst("timeout", <<>>)
    /\ apply(timeoutCleanup)
    /\ closeCalls' = closeCalls + 1
    /\ timerRanAfterCatch' = (startPc = "caught")
    /\ UNCHANGED << kmVars, wcVars >>
    /\ UNCHANGED << listener, browserClosedListener, promise, startPc,
                    closing, browser, delivered, settleCalls, escaped,
                    atCatch, matched, dismissedAt >>

\* await InAppBrowser.close() resolves in the timeout handler
TimeoutCloseResolved ==
    /\ timeoutPc = "awaitClose"
    /\ timeoutPc' = "done"
    /\ browser' = closed(browser)
    /\ settle(reject(promise, userRejectedRequest))
    /\ UNCHANGED << kmVars, wcVars >>
    /\ UNCHANGED << listener, browserClosedListener, timeoutId, startPc,
                    closing, appUrlOpenRegistered, browserClosedRegistered,
                    delivered, closeCalls, listenerRemoves,
                    browserClosedRemoves, lateBody, escaped, first, atCatch,
                    timerRanAfterCatch, matched, dismissedAt >>

\* await InAppBrowser.close() rejects in the timeout handler: nothing catches
TimeoutCloseRejected ==
    /\ timeoutPc = "awaitClose"
    /\ timeoutPc' = "threw"
    /\ escaped' = escaped + 1
    /\ UNCHANGED << kmVars, wcVars >>
    /\ UNCHANGED << listener, browserClosedListener, timeoutId, promise,
                    startPc, closing, appUrlOpenRegistered,
                    browserClosedRegistered, browser, delivered, closeCalls,
                    listenerRemoves, browserClosedRemoves, settleCalls,
                    lateBody, first, atCatch, timerRanAfterCatch, matched,
                    dismissedAt >>

NextRT ==
    \/ AppListenerResolved
    \/ AppListenerRejected
    \/ BrowserListenerResolved
    \/ BrowserListenerRejected
    \/ OpenResolved
    \/ OpenRejected
    \/ \E url \in Urls : AppUrlOpen(url)
    \/ \E url \in Urls : AppUrlOpenCloseResolved(url)
    \/ \E url \in Urls : AppUrlOpenCloseRejected(url)
    \/ BrowserClosed
    \/ Timeout
    \/ TimeoutCloseResolved
    \/ TimeoutCloseRejected

SpecRT == Init /\ [][NextRT]_vars

(***************************************************************************)
(* KeyManager.  Every await of the source is one step: the call is issued  *)
(* when the step before it ends, and the step takes the answer (a storage  *)
(* write takes effect when it is answered).  Throw is the answer that      *)
(* rejects.                                                                *)
(***************************************************************************)
mem ==
    [ priv |-> ownPrivateKey, pub |-> ownPublicKey,
      peer |-> peerPublicKey, secret |-> sharedSecret ]

AllIdle == \A p \in Procs : calls[p] = Idle

\* a loadKeysIfNeeded that generates whatever it has loaded
needsKeyPairAlways(m) == TRUE

\* a loadKeysIfNeeded that generates only when both own keys are missing
needsKeyPairBothMissing(m) == m.priv = Null /\ m.pub = Null

\* if (this.ownPrivateKey === null || this.ownPublicKey === null)
needsKeyPair(m) == m.priv = Null \/ m.pub = Null

\* the own-key half held without its other half
orphaned(m) == {m.priv, m.pub} \ {Null}

\* a loadKeysIfNeeded that derives the secret whenever it has both keys
needsSecretAlways(m) == ~(m.priv = Null \/ m.peer = Null)

\* if (this.sharedSecret === null) { if (this.ownPrivateKey === null ||
\* this.peerPublicKey === null) return; ... }: deriveSharedSecret is called
needsSecret(m) == m.secret = Null /\ ~(m.priv = Null \/ m.peer = Null)

\* loadKeysIfNeeded: the await reached next, from the statement that follows
\* `after`, with the fields as in m ("return": the function ends)
nextAwait(after, m) ==
    LET secretStep == IF needsSecret(m) THEN "derive" ELSE "return"
        peerStep == IF m.peer = Null THEN "loadPeer" ELSE secretStep
        genStep == IF needsKeyPair(m) THEN "generate" ELSE peerStep
        pubStep == IF m.pub = Null THEN "loadPub" ELSE genStep
        privStep == IF m.priv = Null THEN "loadPriv" ELSE pubStep
    IN  CASE after = "entry" -> privStep
          [] after = "loadPriv" -> pubStep
          [] after = "loadPub" -> genStep
          [] after = "storePub" -> peerStep
          [] after = "loadPeer" -> secretStep

\* the call of p goes on inside loadKeysIfNeeded after `after`; the arguments
\* of deriveSharedSecret are read when it is called
proceed(p, after, m) ==
    LET pc == nextAwait(after, m)
    IN  calls' = [calls EXCEPT ![p].pc = pc,
                               ![p].tmp = IF pc = "derive"
                                          THEN <<m.priv, m.peer>> ELSE Null]

\* loadKey(item)
loadKey(item) ==
    IF storage[item.storageKey] = Null
    THEN Null
    ELSE importKeyFromHexString(item.keyType, storage[item.storageKey])

\* a storeKey that also persists the cached shared secret
storeKeyAndSecret(item, key) ==
    ("sharedSecret" :> sharedSecret)
        @@ [storage EXCEPT ![item.storageKey] = exportKeyToHexString(item.keyType, key)]

\* storeKey(item, key): the storage after setItem
storeKey(item, key) ==
    [storage EXCEPT ![item.storageKey] = exportKeyToHexString(item.keyType, key)]

canStart(p, overlap) ==
    /\ calls[p] = Idle
    /\ callsMade < MaxCalls
    /\ overlap \/ AllIdle

begin(p, op, key, m) ==
    LET pc == nextAwait("entry", m)
    IN  /\ calls' = [calls EXCEPT ![p] =
                        [op |-> op, pc |-> pc, key |-> key,
                         id |-> callsMade + 1,
                         tmp |-> IF pc = "derive"
                                 THEN <<m.priv, m.peer>> ELSE Null]]
        /\ callsMade' = callsMade + 1

\* getOwnPublicKey(): await this.loadKeysIfNeeded()
StartGetOwnPublicKey(p, overlap) ==
    /\ canStart(p, overlap)
    /\ begin(p, "getOwnPublicKey", Null, mem)
    /\ UNCHANGED << ownPrivateKey, ownPublicKey, peerPublicKey, sharedSecret,
                    storage, removing, nextPair, restarts, ret, lastPeer,
                    earlierPeers, clearedOk >>
    /\ UNCHANGED clearedAt
    /\ UNCHANGED orphans
    /\ replaced' = Null
    /\ UNCHANGED failedRemovals
    /\ UNCHANGED << rtVars, wcVars >>

\* getSharedSecret(): await this.loadKeysIfNeeded()
StartGetSharedSecret(p, overlap) ==
    /\ canStart(p, overlap)
    /\ begin(p, "getSharedSecret", Null, mem)
    /\ UNCHANGED << ownPrivateKey, ownPublicKey, peerPublicKey, sharedSecret,
                    storage, removing, nextPair, restarts, ret, lastPeer,
                    earlierPeers, clearedOk >>
    /\ UNCHANGED clearedAt
    /\ UNCHANGED orphans
    /\ replaced' = Null
    /\ UNCHANGED failedRemovals
    /\ UNCHANGED << rtVars, wcVars >>

\* setPeerPublicKey keeps the cached secret
setPeerFieldsKeepsSecret(m, key) == [m EXCEPT !.peer = key]

\* setPeerPublicKey(key): this.sharedSecret = null; this.peerPublicKey = key
setPeerFields(m, key) == [m EXCEPT !.secret = Null, !.peer = key]

\* setPeerPublicKey(key), up to await this.storeKey(PEER_PUBLIC_KEY, key)
StartSetPeerPublicKey(p, key, overlap) ==
    /\ canStart(p, overlap)
    /\ sharedSecret' = setPeerFields(mem, key).secret
    /\ peerPublicKey' = setPeerFields(mem, key).peer
    /\ calls' = [calls EXCEPT ![p] =
                    [op |-> "setPeerPublicKey", pc |-> "storePeer",
                     key |-> key, id |-> callsMade + 1, tmp |-> Null]]
    /\ callsMade' = callsMade + 1
    /\ lastPeer' = key
    /\ earlierPeers' = earlierPeers \cup (IF lastPeer = Null THEN {} ELSE {lastPeer})
    /\ clearedOk' = FALSE
    /\ UNCHANGED << ownPrivateKey, ownPublicKey, storage, removing, nextPair,
                    restarts, ret >>
    /\ UNCHANGED clearedAt
    /\ UNCHANGED orphans
    /\ replaced' = Null
    /\ UNCHANGED failedRemovals
    /\ UNCHANGED << rtVars, wcVars >>

\* a clear() that leaves the own key pair in memory
clearFieldsKeepsOwn(m) == [m EXCEPT !.peer = Null, !.secret = Null]

\* clear(): the four fields are set to null
clearFields(m) ==
    [m EXCEPT !.priv = Null, !.pub = Null, !.peer = Null, !.secret = Null]

\* a clear() that does not remove the peer key from the storage
clearRemovalsOwnOnly == {OWN_PUBLIC_KEY.storageKey, OWN_PRIVATE_KEY.storageKey}

\* clear(): the storage keys handed to removeItem inside Promise.all
clearRemovals ==
    {OWN_PUBLIC_KEY.storageKey, OWN_PRIVATE_KEY.storageKey,
     PEER_PUBLIC_KEY.storageKey}

\* clear(), up to await Promise.all([...]): the three removeItem requests are
\* all issued before the await
StartClear(p, overlap) ==
    /\ canStart(p, overlap)
    /\ ownPrivateKey' = clearFields(mem).priv
    /\ ownPublicKey' = clearFields(mem).pub
    /\ peerPublicKey' = clearFields(mem).peer
    /\ sharedSecret' = clearFields(mem).secret
    /\ removing' = removing \cup
                     { [key |-> k, id |-> callsMade + 1] : k \in clearRemovals }
    /\ calls' = [calls EXCEPT ![p] =
                    [op |-> "clear", pc |-> "awaitAll", key |-> Null,
                     id |-> callsMade + 1, tmp |-> Null]]
    /\ callsMade' = callsMade + 1
    /\ lastPeer' = Null
    /\ earlierPeers' = {}
    /\ UNCHANGED << storage, nextPair, restarts, ret, clearedOk >>
    /\ UNCHANGED clearedAt
    /\ UNCHANGED orphans
    /\ replaced' = Null
    /\ UNCHANGED failedRemovals
    /\ UNCHANGED << rtVars, wcVars >>

\* this.ownPrivateKey = await this.loadKey(OWN_PRIVATE_KEY)
LoadPrivDone(p) ==
    /\ calls[p].pc = "loadPriv"
    /\ ownPrivateKey' = loadKey(OWN_PRIVATE_KEY)
    /\ proceed(p, "loadPriv", [mem EXCEPT !.priv = loadKey(OWN_PRIVATE_KEY)])
    /\ UNCHANGED << ownPublicKey, peerPublicKey, sharedSecret, storage,
                    removing, callsMade, nextPair, restarts, ret, lastPeer,
                    earlierPeers, clearedOk >>
    /\ UNCHANGED clearedAt
    /\ UNCHANGED orphans
    /\ UNCHANGED replaced
    /\ UNCHANGED failedRemovals
    /\ UNCHANGED << rtVars, wcVars >>

\* this.ownPublicKey = await this.loadKey(OWN_PUBLIC_KEY)
LoadPubDone(p) ==
    /\ calls[p].pc = "loadPub"
    /\ ownPublicKey' = loadKey(OWN_PUBLIC_KEY)
    /\ proceed(p, "loadPub", [mem EXCEPT !.pub = loadKey(OWN_PUBLIC_KEY)])
    /\ UNCHANGED << ownPrivateKey, peerPublicKey, sharedSecret, storage,
                    removing, callsMade, nextPair, restarts, ret, lastPeer,
                    earlierPeers, clearedOk >>
    /\ UNCHANGED clearedAt
    /\ UNCHANGED orphans
    /\ UNCHANGED replaced
    /\ UNCHANGED failedRemovals
    /\ UNCHANGED << rtVars, wcVars >>

\* generateKeyPair(): const newKeyPair = await generateKeyPair(); both fields
\* are assigned, then await this.storeKey(OWN_PRIVATE_KEY, ...)
GenerateDone(p) ==
    /\ calls[p].pc = "generate"
    /\ nextPair <= MaxKeyPairs
    /\ ownPrivateKey' = privateKey(keyPair(nextPair))
    /\ ownPublicKey' = publicKey(keyPair(nextPair))
    /\ nextPair' = nextPair + 1
    /\ calls' = [calls EXCEPT ![p].pc = "storePriv",
                              ![p].tmp = keyPair(nextPair)]
    /\ UNCHANGED << peerPublicKey, sharedSecret, storage, removing, callsMade,
                    restarts, ret, lastPeer, earlierPeers, clearedOk >>
    /\ UNCHANGED clearedAt
    /\ orphans' = orphans \cup orphaned(mem)
    /\ replaced' = IF orphaned(mem) = {} THEN Null ELSE keyPair(nextPair)
    /\ UNCHANGED failedRemovals
    /\ UNCHANGED << rtVars, wcVars >>

\* await this.storeKey(OWN_PRIVATE_KEY, newKeyPair.privateKey) is answered;
\* await this.storeKey(OWN_PUBLIC_KEY, newKeyPair.publicKey) follows
StorePrivDone(p) ==
    /\ calls[p].pc = "storePriv"
    /\ storage' = storeKey(OWN_PRIVATE_KEY, privateKey(calls[p].tmp))
    /\ calls' = [calls EXCEPT ![p].pc = "storePub"]
    /\ UNCHANGED << ownPrivateKey, ownPublicKey, peerPublicKey, sharedSecret,
                    removing, callsMade, nextPair, restarts, ret, lastPeer,
                    earlierPeers, clearedOk >>
    /\ UNCHANGED clearedAt
    /\ UNCHANGED orphans
    /\ UNCHANGED replaced
    /\ UNCHANGED failedRemovals
    /\ UNCHANGED << rtVars, wcVars >>

\* await this.storeKey(OWN_PUBLIC_KEY, ...) is answered; generateKeyPair
\* returns into loadKeysIfNeeded
StorePubDone(p) ==
    /\ calls[p].pc = "storePub"
    /\ storage' = storeKey(OWN_PUBLIC_KEY, publicKey(calls[p].tmp))
    /\ proceed(p, "storePub", mem)
    /\ UNCHANGED << ownPrivateKey, ownPublicKey, peerPublicKey, sharedSecret,
                    removing, callsMade, nextPair, restarts, ret, lastPeer,
                    earlierPeers, clearedOk >>
    /\ UNCHANGED clearedAt
    /\ UNCHANGED orphans
    /\ UNCHANGED replaced
    /\ UNCHANGED failedRemovals
    /\ UNCHANGED << rtVars, wcVars >>

\* this.peerPublicKey = await this.loadKey(PEER_PUBLIC_KEY)
LoadPeerDone(p) ==
    /\ calls[p].pc = "loadPeer"
    /\ peerPublicKey' = loadKey(PEER_PUBLIC_KEY)
    /\ proceed(p, "loadPeer", [mem EXCEPT !.peer = loadKey(PEER_PUBLIC_KEY)])
    /\ UNCHANGED << ownPrivateKey, ownPublicKey, sharedSecret, storage,
                    removing, callsMade, nextPair, restarts, ret, lastPeer,
                    earlierPeers, clearedOk >>
    /\ UNCHANGED clearedAt
    /\ UNCHANGED orphans
    /\ UNCHANGED replaced
    /\ UNCHANGED failedRemovals
    /\ UNCHANGED << rtVars, wcVars >>

\* this.sharedSecret = await deriveSharedSecret(...); loadKeysIfNeeded ends
DeriveDone(p) ==
    /\ calls[p].pc = "derive"
    /\ sharedSecret' = deriveSharedSecret(calls[p].tmp[1], calls[p].tmp[2])
    /\ calls' = [calls EXCEPT ![p].pc = "return", ![p].tmp = Null]
    /\ UNCHANGED << ownPrivateKey, ownPublicKey, peerPublicKey, storage,
                    removing, callsMade, nextPair, restarts, ret, lastPeer,
                    earlierPeers, clearedOk >>
    /\ UNCHANGED clearedAt
    /\ UNCHANGED orphans
    /\ UNCHANGED replaced
    /\ UNCHANGED failedRemovals
    /\ UNCHANGED << rtVars, wcVars >>

\* setPeerPublicKey: await this.storeKey(PEER_PUBLIC_KEY, key) is answered;
\* await this.loadKeysIfNeeded() follows
StorePeerDone(p) ==
    /\ calls[p].pc = "storePeer"
    /\ storage' = storeKey(PEER_PUBLIC_KEY, calls[p].key)
    /\ proceed(p, "entry", mem)
    /\ UNCHANGED << ownPrivateKey, ownPublicKey, peerPublicKey, sharedSecret,
                    removing, callsMade, nextPair, restarts, ret, lastPeer,
                    earlierPeers, clearedOk >>
    /\ UNCHANGED clearedAt
    /\ UNCHANGED orphans
    /\ UNCHANGED replaced
    /\ UNCHANGED failedRemovals
    /\ UNCHANGED << rtVars, wcVars >>

\* what the call returns after await this.loadKeysIfNeeded()
returned(op) ==
    CASE op = "getOwnPublicKey" -> ownPublicKey
      [] op = "getSharedSecret" -> sharedSecret
      [] OTHER -> Null

\* loadKeysIfNeeded has ended; the call returns to its caller
Return(p) ==
    /\ calls[p].pc = "return"
    /\ ret' = [op |-> calls[p].op, outcome |-> "ok",
               value |-> returned(calls[p].op)]
    /\ calls' = [calls EXCEPT ![p] = Idle]
    /\ UNCHANGED << ownPrivateKey, ownPublicKey, peerPublicKey, sharedSecret,
                    storage, removing, callsMade, nextPair, restarts, lastPeer,
                    earlierPeers, clearedOk >>
    /\ UNCHANGED clearedAt
    /\ UNCHANGED orphans
    /\ UNCHANGED replaced
    /\ UNCHANGED failedRemovals
    /\ UNCHANGED << rtVars, wcVars >>

\* the awaited storage or cipher call rejects: nothing catches, the call
\* throws to its caller
Throw(p) ==
    /\ calls[p].pc \in {"loadPriv", "loadPub", "generate", "storePriv",
                        "storePub", "loadPeer", "derive", "storePeer"}
    /\ ret' = [op |-> calls[p].op, outcome |-> "threw", value |-> Null]
    /\ calls' = [calls EXCEPT ![p] = Idle]
    /\ UNCHANGED << ownPrivateKey, ownPublicKey, peerPublicKey, sharedSecret,
                    storage, removing, callsMade, nextPair, restarts, lastPeer,
                    earlierPeers, clearedOk >>
    /\ UNCHANGED clearedAt
    /\ UNCHANGED orphans
    /\ replaced' = Null
    /\ UNCHANGED failedRemovals
    /\ UNCHANGED << rtVars, wcVars >>

\* the clear() call, still waiting in Promise.all, that issued request r
waiting(r) == { p \in Procs : calls[p].pc = "awaitAll" /\ calls[p].id = r.id }

\* storage.removeItem(r.key) is answered: the entry is gone; Promise.all
\* resolves with the last answer, and clear() returns
RemoveDone(r) ==
    /\ r \in removing
    /\ removing' = removing \ {r}
    /\ storage' = [storage EXCEPT ![r.key] = Null]
    /\ IF waiting(r) # {} /\ { q \in removing : q.id = r.id } = {r}
       THEN /\ calls' = [p \in Procs |-> IF p \in waiting(r) THEN Idle ELSE calls[p]]
            /\ ret' = [op |-> "clear", outcome |-> "ok", value |-> Null]
            /\ clearedOk' = TRUE
            /\ clearedAt' = nextPair
       ELSE UNCHANGED << calls, ret, clearedOk, clearedAt >>
    /\ UNCHANGED << ownPrivateKey, ownPublicKey, peerPublicKey, sharedSecret,
                    callsMade, nextPair, restarts, lastPeer, earlierPeers >>
    /\ UNCHANGED orphans
    /\ replaced' = Null
    /\ UNCHANGED failedRemovals
    /\ UNCHANGED << rtVars, wcVars >>

\* a Promise.all that drops the requests still pending when one rejects
afterFailureCancelsRest(r) == { q \in removing : q.id # r.id }

\* the requests in flight after r was rejected: Promise.all cancels nothing
afterFailure(r) == removing \ {r}

\* storage.removeItem(r.key) rejects: Promise.all rejects at once and clear()
\* throws; the requests not yet answered stay with the storage
RemoveFailed(r) ==
    /\ r \in removing
    /\ removing' = afterFailure(r)
    /\ failedRemovals' = failedRemovals \cup {r}
    /\ IF waiting(r) # {}
       THEN /\ calls' = [p \in Procs |-> IF p \in waiting(r) THEN Idle ELSE calls[p]]
            /\ ret' = [op |-> "clear", outcome |-> "threw", value |-> Null]
       ELSE UNCHANGED << calls, ret >>
    /\ UNCHANGED << ownPrivateKey, ownPublicKey, peerPublicKey, sharedSecret,
                    storage, callsMade, nextPair, restarts, lastPeer,
                    earlierPeers, clearedOk >>
    /\ UNCHANGED clearedAt
    /\ UNCHANGED orphans
    /\ UNCHANGED replaced
    /\ UNCHANGED << rtVars, wcVars >>

\* the process ends and a new KeyManager is constructed over the same
\* storage: the fields are null again, calls in progress are gone
Restart ==
    /\ restarts < MaxRestarts
    /\ restarts' = restarts + 1
    /\ ownPrivateKey' = Null
    /\ ownPublicKey' = Null
    /\ peerPublicKey' = Null
    /\ sharedSecret' = Null
    /\ calls' = [p \in Procs |-> Idle]
    /\ removing' = {}
    /\ ret' = NoReturn
    /\ lastPeer' = Null
    /\ earlierPeers' = {}
    /\ UNCHANGED << storage, callsMade, nextPair, clearedOk >>
    /\ UNCHANGED clearedAt
    /\ UNCHANGED orphans
    /\ replaced' = Null
    /\ UNCHANGED failedRemovals
    /\ UNCHANGED << rtVars, wcVars >>

\* a caller that awaits each call before issuing the next
NextKM ==
    \/ StartGetOwnPublicKey(1, FALSE)
    \/ StartGetSharedSecret(1, FALSE)
    \/ \E key \in PeerKeys : StartSetPeerPublicKey(1, key, FALSE)
    \/ StartClear(1, FALSE)
    \/ \E p \in Procs : LoadPrivDone(p)
    \/ \E p \in Procs : LoadPubDone(p)
    \/ \E p \in Procs : GenerateDone(p)
    \/ \E p \in Procs : StorePrivDone(p)
    \/ \E p \in Procs : StorePubDone(p)
    \/ \E p \in Procs : LoadPeerDone(p)
    \/ \E p \in Procs : DeriveDone(p)
    \/ \E p \in Procs : StorePeerDone(p)
    \/ \E p \in Procs : Return(p)
    \/ \E p \in Procs : Throw(p)
    \/ \E r \in removing : RemoveDone(r)
    \/ \E r \in removing : RemoveFailed(r)
    \/ Restart

SpecKM == Init /\ [][NextKM]_vars

\* the process is restarted while no call is in progress
RestartBetweenCalls ==
    /\ AllIdle
    /\ Restart

\* a caller that awaits each call before issuing the next, every storage and
\* cipher call answered without error
NextKMS ==
    \/ StartGetOwnPublicKey(1, FALSE)
    \/ StartGetSharedSecret(1, FALSE)
    \/ \E key \in PeerKeys : StartSetPeerPublicKey(1, key, FALSE)
    \/ StartClear(1, FALSE)
    \/ \E p \in Procs : LoadPrivDone(p)
    \/ \E p \in Procs : LoadPubDone(p)
    \/ \E p \in Procs : GenerateDone(p)
    \/ \E p \in Procs : StorePrivDone(p)
    \/ \E p \in Procs : StorePubDone(p)
    \/ \E p \in Procs : LoadPeerDone(p)
    \/ \E p \in Procs : DeriveDone(p)
    \/ \E p \in Procs : StorePeerDone(p)
    \/ \E p \in Procs : Return(p)
    \/ \E r \in removing : RemoveDone(r)
    \/ RestartBetweenCalls

SpecKMS == Init /\ [][NextKMS]_vars

\* callers that do not wait for one another: a call may start while another
\* is suspended at an await; every storage and cipher call is answered
\* without error and the process keeps running
NextKMC ==
    \/ \E p \in Procs : StartGetOwnPublicKey(p, TRUE)
    \/ \E p \in Procs : StartGetSharedSecret(p, TRUE)
    \/ \E p \in Procs : \E key \in PeerKeys : StartSetPeerPublicKey(p, key, TRUE)
    \/ \E p \in Procs : StartClear(p, TRUE)
    \/ \E p \in Procs : LoadPrivDone(p)
    \/ \E p \in Procs : LoadPubDone(p)
    \/ \E p \in Procs : GenerateDone(p)
    \/ \E p \in Procs : StorePrivDone(p)
    \/ \E p \in Procs : StorePubDone(p)
    \/ \E p \in Procs : LoadPeerDone(p)
    \/ \E p \in Procs : DeriveDone(p)
    \/ \E p \in Procs : StorePeerDone(p)
    \/ \E p \in Procs : Return(p)
    \/ \E r \in removing : RemoveDone(r)

SpecKMC == Init /\ [][NextKMC]_vars

(***************************************************************************)
(* Connector.  A caller issues connect, disconnect and switchChain and      *)
(* awaits each; the provider delivers its events to the handlers that are  *)
(* registered at any time, also while a call is suspended at an await.     *)
(* Every provider request is one step, taken when it is answered; the      *)
(* statements between two awaits run in the step that reaches them.        *)
(***************************************************************************)
\* the handlers handed to provider.on for a handler variable h by the connect
\* call number id, were the `if (!h)` test left out
newlyBoundAlways(h, id) == {id}

\* if (!h) { h = this.on...bind(this); provider.on(event, h) }: the handlers
\* handed to provider.on
newlyBound(h, id) == IF h = 0 THEN {id} ELSE {}

\* the value of the handler variable after that statement
bound(h, id) == IF h = 0 THEN id ELSE h

\* the handler variable of a provider event
handlerOf(ev) ==
    CASE ev = "accountsChanged" -> accountsChanged
      [] ev = "chainChanged" -> chainChanged
      [] ev = "disconnect" -> disconnect

\* connect: the three `if (!h) {...}` statements
bindListeners(id) ==
    /\ registered' = [ev \in ProviderEvents |->
                         registered[ev] \cup newlyBound(handlerOf(ev), id)]
    /\ accountsChanged' = bound(accountsChanged, id)
    /\ chainChanged' = bound(chainChanged, id)
    /\ disconnect' = bound(disconnect, id)
    /\ tornDown' = FALSE

\* disconnect / onDisconnect: the three `if (h) { provider.removeListener(
\* event, h); h = undefined }` statements
unbindListeners ==
    /\ registered' = [ev \in ProviderEvents |-> registered[ev] \ {handlerOf(ev)}]
    /\ accountsChanged' = 0
    /\ chainChanged' = 0
    /\ disconnect' = 0
    /\ tornDown' = TRUE

canCall == wcCall = NoCall /\ wcCalls < MaxConnectorCalls

\* the call in progress ends
ends(outcome, error, chainId) ==
    /\ wcRet' = [op |-> wcCall.op, outcome |-> outcome, error |-> error,
                 chainId |-> chainId]
    /\ wcCall' = NoCall

\* a new call: what is remembered of the call before is forgotten
forget ==
    /\ wcRet' = NoResult
    /\ raised' = NotRaised
    /\ addChainRequest' = <<>>

\* connect({ chainId }) is called: await this.getProvider()
ConnectStart(chainId) ==
    /\ canCall
    /\ wcCall' = [NoCall EXCEPT !.op = "connect", !.pc = "getProvider",
                                !.id = wcCalls + 1, !.chainId = chainId]
    /\ wcCalls' = wcCalls + 1
    /\ forget
    /\ UNCHANGED << walletProvider, accountsChanged, chainChanged, disconnect,
                    registered, providerChain, pendingOnDisconnect, wcEvents,
                    tornDown >>
    /\ UNCHANGED << rtVars, kmVars >>

\* disconnect() is called: await this.getProvider()
DisconnectStart ==
    /\ canCall
    /\ wcCall' = [NoCall EXCEPT !.op = "disconnect", !.pc = "getProvider",
                                !.id = wcCalls + 1]
    /\ wcCalls' = wcCalls + 1
    /\ forget
    /\ UNCHANGED << walletProvider, accountsChanged, chainChanged, disconnect,
                    registered, providerChain, pendingOnDisconnect, wcEvents,
                    tornDown >>
    /\ UNCHANGED << rtVars, kmVars >>

\* switchChain({ addEthereumChainParameter, chainId }) is called: a chain
\* that is not configured throws at once, else await this.getProvider()
SwitchChainStart(chainId, param) ==
    /\ canCall
    /\ wcCalls' = wcCalls + 1
    /\ IF findChain(chainId) = <<>>
       THEN /\ wcRet' = [op |-> "switchChain", outcome |-> "threw",
                         error |-> << SwitchChainError(ChainNotConfiguredError) >>,
                         chainId |-> 0]
            /\ UNCHANGED wcCall
       ELSE /\ wcCall' = [NoCall EXCEPT !.op = "switchChain",
                                        !.pc = "getProvider",
                                        !.id = wcCalls + 1,
                                        !.chainId = chainId, !.param = param]
            /\ wcRet' = NoResult
    /\ raised' = NotRaised
    /\ addChainRequest' = <<>>
    /\ UNCHANGED << walletProvider, accountsChanged, chainChanged, disconnect,
                    registered, providerChain, pendingOnDisconnect, wcEvents,
                    tornDown >>
    /\ UNCHANGED << rtVars, kmVars >>

\* getProvider() returns into connect: provider.request(eth_requestAccounts)
ConnectProviderReady ==
    /\ wcCall.op = "connect"
    /\ wcCall.pc = "getProvider"
    /\ walletProvider' = TRUE
    /\ wcCall' = [wcCall EXCEPT !.pc = "requestAccounts"]
    /\ UNCHANGED << accountsChanged, chainChanged, disconnect, registered,
                    providerChain, pendingOnDisconnect, wcCalls, wcEvents,
                    wcRet, raised, tornDown, addChainRequest >>
    /\ UNCHANGED << rtVars, kmVars >>

\* getProvider() returns into switchChain: wallet_switchEthereumChain
SwitchProviderReady ==
    /\ wcCall.op = "switchChain"
    /\ wcCall.pc = "getProvider"
    /\ walletProvider' = TRUE
    /\ wcCall' = [wcCall EXCEPT !.pc = "switchRequest"]
    /\ UNCHANGED << accountsChanged, chainChanged, disconnect, registered,
                    providerChain, pendingOnDisconnect, wcCalls, wcEvents,
                    wcRet, raised, tornDown, addChainRequest >>
    /\ UNCHANGED << rtVars, kmVars >>

\* getProvider() returns into disconnect: the listeners are removed,
\* provider.disconnect() is called and disconnect() returns
DisconnectProviderReady ==
    /\ wcCall.op = "disconnect"
    /\ wcCall.pc = "getProvider"
    /\ walletProvider' = TRUE
    /\ unbindListeners
    /\ ends("ok", <<>>, 0)
    /\ UNCHANGED << providerChain, pendingOnDisconnect, wcCalls, wcEvents,
                    raised, addChainRequest >>
    /\ UNCHANGED << rtVars, kmVars >>

\* catch block of connect: `step` raised error e
connectThrows(step, e) ==
    /\ raised' = [step |-> step, error |-> <<e>>]
    /\ ends("threw", << connectRethrow(e) >>, 0)

\* switchChain throws err.  Called by a caller, the error is the caller's;
\* called by connect, the .catch handler rethrows an error with the code of
\* UserRejectedRequestError into the catch block of connect and answers any
\* other error with { id: currentChainId }, with which connect returns
switchChainThrows(err, currentChainId) ==
    IF wcCall.op = "connect"
    THEN /\ raised' = [step |-> "switchChain", error |-> <<err>>]
         /\ IF err.code = UserRejectedRequestError(err).code
            THEN ends("threw", << connectRethrow(err) >>, 0)
            ELSE ends("ok", <<>>, currentChainId)
    ELSE /\ UNCHANGED raised
         /\ ends("threw", <<err>>, 0)

\* eth_requestAccounts is answered: the listeners are bound, then
\* await this.getChainId()
AccountsResolved ==
    /\ wcCall.pc = "requestAccounts"
    /\ bindListeners(wcCall.id)
    /\ wcCall' = [wcCall EXCEPT !.pc = "getChainId"]
    /\ UNCHANGED << walletProvider, providerChain, pendingOnDisconnect,
                    wcCalls, wcEvents, wcRet, raised, addChainRequest >>
    /\ UNCHANGED << rtVars, kmVars >>

\* eth_requestAccounts is rejected
AccountsRejected(e) ==
    /\ wcCall.pc = "requestAccounts"
    /\ connectThrows("requestAccounts", e)
    /\ UNCHANGED << walletProvider, accountsChanged, chainChanged, disconnect,
                    registered, providerChain, pendingOnDisconnect, wcCalls,
                    wcEvents, tornDown, addChainRequest >>
    /\ UNCHANGED << rtVars, kmVars >>

\* eth_chainId is answered: connect returns, or calls switchChain when a
\* different chain was asked for; switchChain throws at once for a chain that
\* is not configured, else it requests wallet_switchEthereumChain
ChainIdResolved ==
    /\ wcCall.pc = "getChainId"
    /\ IF wcCall.chainId # 0 /\ providerChain # wcCall.chainId
       THEN IF findChain(wcCall.chainId) = <<>>
            THEN switchChainThrows(SwitchChainError(ChainNotConfiguredError),
                                   providerChain)
            ELSE /\ wcCall' = [wcCall EXCEPT !.pc = "switchRequest",
                                             !.currentChainId = providerChain]
                 /\ UNCHANGED << wcRet, raised >>
       ELSE /\ ends("ok", <<>>, providerChain)
            /\ UNCHANGED raised
    /\ UNCHANGED << walletProvider, accountsChanged, chainChanged, disconnect,
                    registered, providerChain, pendingOnDisconnect, wcCalls,
                    wcEvents, tornDown, addChainRequest >>
    /\ UNCHANGED << rtVars, kmVars >>

\* eth_chainId is rejected
ChainIdRejected(e) ==
    /\ wcCall.pc = "getChainId"
    /\ connectThrows("getChainId", e)
    /\ UNCHANGED << walletProvider, accountsChanged, chainChanged, disconnect,
                    registered, providerChain, pendingOnDisconnect, wcCalls,
                    wcEvents, tornDown, addChainRequest >>
    /\ UNCHANGED << rtVars, kmVars >>

\* wallet_switchEthereumChain or wallet_addEthereumChain is answered: the
\* wallet is on the chain and switchChain returns it
SwitchResolved ==
    /\ wcCall.pc \in {"switchRequest", "addChain"}
    /\ providerChain' = wcCall.chainId
    /\ ends("ok", <<>>, wcCall.chainId)
    /\ UNCHANGED << walletProvider, accountsChanged, chainChanged, disconnect,
                    registered, pendingOnDisconnect, wcCalls, wcEvents,
                    raised, tornDown, addChainRequest >>
    /\ UNCHANGED << rtVars, kmVars >>

\* wallet_switchEthereumChain is rejected: with code 4902 the add-chain
\* payload is built and wallet_addEthereumChain requested, else switchChain
\* throws SwitchChainError
SwitchRejected(e) ==
    /\ wcCall.pc = "switchRequest"
    /\ IF e.code = 4902
       THEN /\ addChainRequest' =
                 << wcCall.param, findChain(wcCall.chainId)[1],
                    addEthereumChain(wcCall.param, findChain(wcCall.chainId)[1]) >>
            /\ wcCall' = [wcCall EXCEPT !.pc = "addChain"]
            /\ UNCHANGED << wcRet, raised >>
       ELSE /\ switchChainThrows(SwitchChainError(e), wcCall.currentChainId)
            /\ UNCHANGED addChainRequest
    /\ UNCHANGED << walletProvider, accountsChanged, chainChanged, disconnect,
                    registered, providerChain, pendingOnDisconnect, wcCalls,
                    wcEvents, tornDown >>
    /\ UNCHANGED << rtVars, kmVars >>

\* wallet_addEthereumChain is rejected: switchChain throws
\* UserRejectedRequestError
AddChainRejected(e) ==
    /\ wcCall.pc = "addChain"
    /\ switchChainThrows(UserRejectedRequestError(e), wcCall.currentChainId)
    /\ UNCHANGED << walletProvider, accountsChanged, chainChanged, disconnect,
                    registered, providerChain, pendingOnDisconnect, wcCalls,
                    wcEvents, tornDown, addChainRequest >>
    /\ UNCHANGED << rtVars, kmVars >>

\* the provider emits accountsChanged to the handlers registered for it:
\* onAccountsChanged calls this.onDisconnect() for an empty list of accounts
\* and emits "change" otherwise
AccountsChangedEvent(empty) ==
    /\ registered["accountsChanged"] # {}
    /\ wcEvents < MaxProviderEvents
    /\ wcEvents' = wcEvents + 1
    /\ pendingOnDisconnect' =
          pendingOnDisconnect +
          (IF empty THEN Cardinality(registered["accountsChanged"]) ELSE 0)
    /\ UNCHANGED << walletProvider, accountsChanged, chainChanged, disconnect,
                    registered, providerChain, wcCall, wcCalls, wcRet, raised,
                    tornDown, addChainRequest >>
    /\ UNCHANGED << rtVars, kmVars >>

\* the provider emits chainChanged: onChainChanged emits "change"
ChainChangedEvent ==
    /\ registered["chainChanged"] # {}
    /\ wcEvents < MaxProviderEvents
    /\ wcEvents' = wcEvents + 1
    /\ UNCHANGED << walletProvider, accountsChanged, chainChanged, disconnect,
                    registered, providerChain, wcCall, pendingOnDisconnect,
                    wcCalls, wcRet, raised, tornDown, addChainRequest >>
    /\ UNCHANGED << rtVars, kmVars >>

\* the provider emits disconnect: onDisconnect emits "disconnect" and awaits
\* this.getProvider()
DisconnectEvent ==
    /\ registered["disconnect"] # {}
    /\ wcEvents < MaxProviderEvents
    /\ wcEvents' = wcEvents + 1
    /\ pendingOnDisconnect' =
          pendingOnDisconnect + Cardinality(registered["disconnect"])
    /\ UNCHANGED << walletProvider, accountsChanged, chainChanged, disconnect,
                    registered, providerChain, wcCall, wcCalls, wcRet, raised,
                    tornDown, addChainRequest >>
    /\ UNCHANGED << rtVars, kmVars >>

\* getProvider() returns into onDisconnect: the listeners are removed and
\* onDisconnect ends
OnDisconnectProviderReady ==
    /\ pendingOnDisconnect > 0
    /\ pendingOnDisconnect' = pendingOnDisconnect - 1
    /\ walletProvider' = TRUE
    /\ unbindListeners
    /\ UNCHANGED << providerChain, wcCall, wcCalls, wcEvents, wcRet, raised,
                    addChainRequest >>
    /\ UNCHANGED << rtVars, kmVars >>

NextWC ==
    \/ \E chainId \in ChainIds : ConnectStart(chainId)
    \/ DisconnectStart
    \/ \E chainId \in ChainIds \ {0}, param \in AddChainParameters :
          SwitchChainStart(chainId, param)
    \/ ConnectProviderReady
    \/ SwitchProviderReady
    \/ DisconnectProviderReady
    \/ AccountsResolved
    \/ \E e \in ProviderErrors : AccountsRejected(e)
    \/ ChainIdResolved
    \/ \E e \in ProviderErrors : ChainIdRejected(e)
    \/ SwitchResolved
    \/ \E e \in ProviderErrors : SwitchRejected(e)
    \/ \E e \in ProviderErrors : AddChainRejected(e)
    \/ \E empty \in BOOLEAN : AccountsChangedEvent(empty)
    \/ ChainChangedEvent
    \/ DisconnectEvent
    \/ OnDisconnectProviderReady

SpecWC == Init /\ [][NextWC]_vars

(***************************************************************************)
(* Round trip: properties.                                                 *)
(***************************************************************************)
\* nothing of the invocation is left that could still call resolve or reject
QuiescentRT ==
    /\ startPc \in {"launched", "caught"}
    /\ timeoutId # "armed"
    /\ timeoutPc # "awaitClose"
    /\ \A u \in Urls : closing[u] = 0
    /\ ~appUrlOpenRegistered
    /\ ~browserClosedRegistered

RejectedByUser == promise = [state |-> "rejected", value |-> userRejectedRequest]

\* C1: every call settles its promise, whatever the host does: once no
\* listener, timer or pending host call of the invocation is left, the
\* promise is resolved or rejected.
C1_EveryCallSettles == QuiescentRT => promise.state # "pending"

\* C2: the race branches are mutually exclusive: resolve/reject is called at
\* most once, and no branch body starts after a branch has called it.
C2_BranchesMutuallyExclusive == settleCalls <= 1 /\ ~lateBody

\* C3: a matching, decodable deep link that is the first race event resolves
\* the promise with the decoded response once its handler has run, and then
\* InAppBrowser.close and both remove() were each called exactly once.
C3_DeepLinkResolvesOnce ==
    ( /\ first[1] = "deepLink"
      /\ ~decodeThrows(searchParams(first[2]))
      /\ closing[first[2]] = 0 )
    => /\ promise = [state |-> "resolved",
                     value |-> decodeResponseURLParams(searchParams(first[2]))]
       /\ closeCalls = 1
       /\ listenerRemoves = 1
       /\ browserClosedRemoves = 1

C5_TimeoutRejects ==
    ( /\ first = <<"timeout", <<>>, "launched">>
      /\ timeoutPc \in {"done", "threw"} )
    => /\ ~appUrlOpenRegistered
       /\ ~browserClosedRegistered
       /\ closeCalls >= 1
       /\ RejectedByUser

\* C6: after a failed launch step every registered listener is
\* removed, the timer is cleared and its handler does not run afterwards, and
\* the promise is rejected with userRejectedRequest.
C6_LaunchFailureRejects ==
    startPc = "caught"
    => /\ ~appUrlOpenRegistered
       /\ ~browserClosedRegistered
       /\ timeoutId # "armed"
       /\ ~timerRanAfterCatch
       /\ RejectedByUser

C8_LatestPeerSecret ==
    ( /\ AllIdle
      /\ ret.op = "getSharedSecret"
      /\ ret.outcome = "ok"
      /\ lastPeer # Null )
    => ret.value = deriveSharedSecret(ownPrivateKey, lastPeer)

C8_Witness ==
    /\ AllIdle
    /\ ret.op = "getSharedSecret"
    /\ ret.outcome = "ok"
    /\ lastPeer = <<"public", "p2">>
    /\ earlierPeers = { <<"public", "p1">> }
    /\ ret.value = <<"secret", 1, "p2">>

AllKeysPresent ==
    /\ ownPrivateKey # Null
    /\ ownPublicKey # Null
    /\ peerPublicKey # Null

\* C9: with no call in progress, whether the calls returned or
\* threw, sharedSecret is non-null iff the three keys are non-null.
C9_SecretIffKeys == AllIdle => (sharedSecret # Null <=> AllKeysPresent)

\* C10: when clear() has returned and no call is in progress, no entry is
\* persisted and the four fields are null; and from then on, until
\* setPeerPublicKey is called, every getSharedSecret() that returns yields null.
C10_ClearErasesAll ==
    /\ ( AllIdle /\ ret.op = "clear" /\ ret.outcome = "ok" )
       => /\ \A k \in StorageKeys : storage[k] = Null
          /\ ownPrivateKey = Null
          /\ ownPublicKey = Null
          /\ peerPublicKey = Null
          /\ sharedSecret = Null
    /\ ( clearedOk /\ ret.op = "getSharedSecret" /\ ret.outcome = "ok" )
       => ret.value = Null

C10_Witness ==
    /\ clearedOk
    /\ AllIdle
    /\ ret.op = "getSharedSecret"
    /\ ret.outcome = "ok"
    /\ ret.value = Null
    /\ ownPublicKey = <<"public", 2>>
    /\ storage["ownPublicKey"] = <<"hex", "public", 2>>

\* C11: after clear() has returned, every getOwnPublicKey() that returns
\* yields the public half of a pair generated after that clear(), so a key
\* different from every public key generated or returned before it.
C11_FreshIdentityAfterClear ==
    ( /\ clearedAt > 0
      /\ ret.op = "getOwnPublicKey"
      /\ ret.outcome = "ok" )
    => \E n \in clearedAt .. MaxKeyPairs :
          /\ ret.value = publicKey(keyPair(n))
          /\ \A k \in 1 .. (clearedAt - 1) : ret.value # publicKey(keyPair(k))

C11_Witness ==
    /\ AllIdle
    /\ clearedAt = 2
    /\ ret.op = "getOwnPublicKey"
    /\ ret.outcome = "ok"
    /\ ret.value = publicKey(keyPair(2))
    /\ restarts = 0

\* the own keys in memory are the two halves of one generated pair
OwnKeysArePair ==
    \E n \in 1 .. MaxKeyPairs :
        /\ ownPrivateKey = privateKey(keyPair(n))
        /\ ownPublicKey = publicKey(keyPair(n))

removal(k, id) == [key |-> k, id |-> id]

\* C13: clear() attempts each of the three deletions whatever becomes of the
\* others: while it waits and after it returned or threw, every entry is
\* gone, or its deletion is still in flight, or its deletion was rejected;
\* and the four fields are null once clear() has ended either way.
C13_EveryDeletionAttempted ==
    /\ \A p \in Procs :
          calls[p].pc = "awaitAll"
          => \A k \in StorageKeys :
                \/ storage[k] = Null
                \/ removal(k, calls[p].id) \in removing
                \/ removal(k, calls[p].id) \in failedRemovals
    /\ ( AllIdle /\ ret.op = "clear" )
       => /\ \A k \in StorageKeys :
                \/ storage[k] = Null
                \/ removal(k, callsMade) \in removing
                \/ removal(k, callsMade) \in failedRemovals
          /\ ownPrivateKey = Null
          /\ ownPublicKey = Null
          /\ peerPublicKey = Null
          /\ sharedSecret = Null

C13_Witness ==
    /\ AllIdle
    /\ ret.op = "clear"
    /\ ret.outcome = "threw"
    /\ removing = {}
    /\ failedRemovals = { removal(PEER_PUBLIC_KEY.storageKey, callsMade) }
    /\ storage[PEER_PUBLIC_KEY.storageKey] # Null
    /\ storage[OWN_PRIVATE_KEY.storageKey] = Null
    /\ storage[OWN_PUBLIC_KEY.storageKey] = Null
    /\ nextPair = 2

(***************************************************************************)
(* Connector: properties, for a caller that awaits every call (SpecWC).    *)
(***************************************************************************)
\* C14: each of the provider events accountsChanged, chainChanged and
\* disconnect has at most one handler registered by the connector, and none
\* once disconnect() or onDisconnect() has completed (until connect binds
\* handlers again).
C14_ListenersBoundOnce ==
    /\ \A ev \in ProviderEvents : Cardinality(registered[ev]) <= 1
    /\ tornDown => \A ev \in ProviderEvents : registered[ev] = {}

\* disconnect() has returned on a connector whose handlers had been bound
\* (the provider delivered events to them) and nothing is registered
C14_Witness ==
    /\ wcRet.op = "disconnect"
    /\ wcRet.outcome = "ok"
    /\ wcEvents > 0
    /\ pendingOnDisconnect = 0
    /\ tornDown
    /\ \A ev \in ProviderEvents : registered[ev] = {}

\* the three cases stated for one list of the add-chain payload: `supplied`
\* is the caller's optional list, `default` the optional network default
urlsAsStated(list, supplied, default) ==
    /\ (supplied # <<>> /\ default # <<>>) => list = supplied[1]
    /\ (supplied = <<>> /\ default # <<>>) => list = << default[1] >>
    /\ (supplied = <<>> /\ default = <<>>) => list = <<>>

\* C15: in the add-chain payload sent after the peer answered 4902, rpcUrls
\* and blockExplorerUrls are each the caller's list when the caller supplied
\* one and a network default exists, the network default when the caller
\* supplied none, and empty when there is neither.
C15_AddChainUrls ==
    addChainRequest # <<>>
    => /\ urlsAsStated(addChainRequest[3].blockExplorerUrls,
                       callerBlockExplorerUrls(addChainRequest[1]),
                       addChainRequest[2].blockExplorer)
       /\ urlsAsStated(addChainRequest[3].rpcUrls,
                       callerRpcUrls(addChainRequest[1]),
                       addChainRequest[2].rpc)

\* connect threw, and what it threw is the raised error normalized: a
\* UserRejectedRequestError around it when its message holds a recognized
\* phrase, the error itself otherwise
ThrewNormalized ==
    /\ wcRet.op = "connect"
    /\ wcRet.outcome = "threw"
    /\ IF matchesRejection(raised.error[1].message)
       THEN /\ wcRet.error[1].name = "UserRejectedRequestError"
            /\ wcRet.error[1].cause = raised.error
       ELSE wcRet.error = raised.error

\* C16 (as claimed): whichever step of connect raised an error (account
\* request, chain-id query, requested chain switch), connect throws it
\* normalized.
C16_ConnectErrorsNormalized == raised.step # "none" => ThrewNormalized

\* C16 (amended): an error of the account request or of the chain-id query
\* is thrown normalized; an error of the requested chain switch is thrown
\* normalized when it has the code of UserRejectedRequestError, and is
\* otherwise swallowed: connect returns with the chain id it had queried.
C16_ConnectErrorsExceptSwitch ==
    raised.step # "none"
    => IF /\ raised.step = "switchChain"
          /\ raised.error[1].code # UserRejectedRequestError(raised.error[1]).code
       THEN /\ wcRet.op = "connect"
            /\ wcRet.outcome = "ok"
            /\ wcRet.chainId = providerChain
       ELSE ThrewNormalized

C16_Witness ==
    /\ raised.step = "requestAccounts"
    /\ raised.error[1].message = <<"User", "denied", "account", "authorization">>
    /\ wcRet.op = "connect"
    /\ wcRet.outcome = "threw"
    /\ wcRet.error[1].name = "UserRejectedRequestError"
    /\ wcRet.error[1].cause = raised.error

\* C17: once the promise of the invocation is resolved or rejected, neither
\* its appUrlOpen listener nor its browserClosed listener is registered and
\* its timer is not armed, whenever the host events arrive during the setup.
C17_NothingLeftAfterSettling ==
    promise.state # "pending"
    => /\ ~appUrlOpenRegistered
       /\ ~browserClosedRegistered
       /\ timeoutId # "armed"

\* C18: whenever a shared secret is cached, also while calls overlap at their
\* awaits, it is deriveSharedSecret of the own private key and the peer public
\* key held in memory at that moment.
C18_SecretOfCurrentKeys ==
    sharedSecret # Null
    => /\ ownPrivateKey # Null
       /\ peerPublicKey # Null
       /\ sharedSecret = deriveSharedSecret(ownPrivateKey, peerPublicKey)

\* the number of the first key pair generated after the last clear() that
\* returned (after construction when none has)
firstPairSinceClear == IF clearedAt = 0 THEN 1 ELSE clearedAt

\* C19: with storage calls that succeed and calls awaited one by one, at most
\* one own key pair is generated after a clear() (or after the first
\* construction), and a getOwnPublicKey() that returns, also after a restart,
\* returns the public key of that pair.
C19_OwnKeyGeneratedOnce ==
    /\ nextPair - firstPairSinceClear <= 1
    /\ (ret.op = "getOwnPublicKey" /\ ret.outcome = "ok")
       => ret.value = publicKey(keyPair(firstPairSinceClear))

C19_Witness ==
    /\ restarts = 1
    /\ clearedAt = 0
    /\ callsMade >= 2
    /\ nextPair = 2
    /\ ret = [op |-> "getOwnPublicKey", outcome |-> "ok",
              value |-> publicKey(keyPair(1))]

\* C20: setPeerPublicKey(key), called by a caller that awaits each call,
\* first evicts the cached secret and sets the peer key in memory (nothing is
\* written yet), then persists the key (the secret still evicted), then
\* derives the secret from the own private key and key; when it returns
\* normally that secret is cached, and a getSharedSecret() called next reaches
\* its return without an await (no deriveSharedSecret, no storage call),
\* leaves storage and fields alone and returns that secret.
C20_SetPeerOrderThenCached ==
    [][ LET call == calls[1]
            after == calls'[1]
            inSetPeer == call.op = "setPeerPublicKey"
            derived == deriveSharedSecret(ownPrivateKey, lastPeer)
            setPeerReturned == ret.op = "setPeerPublicKey" /\ ret.outcome = "ok"
        IN  /\ (call = Idle /\ after.op = "setPeerPublicKey")
               => /\ after.pc = "storePeer"
                  /\ sharedSecret' = Null
                  /\ peerPublicKey' = after.key
                  /\ lastPeer' = after.key
                  /\ storage' = storage
            /\ (inSetPeer /\ call.pc = "storePeer" /\ after.op = "setPeerPublicKey"
                /\ after.pc # "storePeer")
               => /\ storage'[PEER_PUBLIC_KEY.storageKey]
                        = exportKeyToHexString(PEER_PUBLIC_KEY.keyType, call.key)
                  /\ peerPublicKey' = call.key
                  /\ sharedSecret' = Null
            /\ (inSetPeer /\ call.pc = "derive" /\ after.pc = "return")
               => /\ sharedSecret = Null
                  /\ sharedSecret' = deriveSharedSecret(ownPrivateKey, call.key)
            /\ (inSetPeer /\ after = Idle /\ ret'.outcome = "ok")
               => /\ call.key = lastPeer
                  /\ sharedSecret = derived
            /\ (setPeerReturned /\ call = Idle /\ after.op = "getSharedSecret")
               => /\ after.pc = "return"
                  /\ sharedSecret' = derived
                  /\ storage' = storage
            /\ (setPeerReturned /\ call.op = "getSharedSecret"
                /\ ret'.op = "getSharedSecret")
               => /\ call.pc = "return"
                  /\ ret' = [op |-> "getSharedSecret", outcome |-> "ok",
                             value |-> derived]
                  /\ storage' = storage
      ]_vars

C20_Witness ==
    /\ calls[1].op = "getSharedSecret"
    /\ calls[1].pc = "return"
    /\ ret = [op |-> "setPeerPublicKey", outcome |-> "ok", value |-> Null]
    /\ lastPeer # Null
    /\ sharedSecret = deriveSharedSecret(ownPrivateKey, lastPeer)

\* what setItem may have left under a storage key: nothing, or the hex
\* string of a key of the kind kept there
persistable(k) ==
    {Null}
    \cup IF k = OWN_PRIVATE_KEY.storageKey
         THEN { exportKeyToHexString(OWN_PRIVATE_KEY.keyType, privateKey(keyPair(n))) :
                    n \in 1 .. MaxKeyPairs }
         ELSE IF k = OWN_PUBLIC_KEY.storageKey
         THEN { exportKeyToHexString(OWN_PUBLIC_KEY.keyType, publicKey(keyPair(n))) :
                    n \in 1 .. MaxKeyPairs }
         ELSE { exportKeyToHexString(PEER_PUBLIC_KEY.keyType, key) : key \in PeerKeys }

\* C21: the shared secret is never persisted: after every step the storage
\* holds entries under ownPrivateKey, ownPublicKey and peerPublicKey only,
\* each empty or the hex string of a key of its kind; a restart leaves no
\* secret in memory, and a secret appears in memory only as the answer of
\* deriveSharedSecret to the own private key and the peer public key held in
\* memory.
C21_SecretNeverPersisted ==
    [][ /\ DOMAIN storage' = StorageKeys
        /\ \A k \in DOMAIN storage' : storage'[k] \in persistable(k)
        /\ restarts' # restarts => sharedSecret' = Null
        /\ (sharedSecret' # sharedSecret /\ sharedSecret' # Null)
           => /\ \E p \in Procs : calls[p].pc = "derive"
              /\ ownPrivateKey # Null
              /\ peerPublicKey # Null
              /\ sharedSecret' = deriveSharedSecret(ownPrivateKey, peerPublicKey)
      ]_vars

C21_Witness ==
    /\ restarts = 1
    /\ lastPeer = Null
    /\ sharedSecret # Null
    /\ \A k \in StorageKeys : storage[k] # Null
    /\ ownPrivateKey = loadKey(OWN_PRIVATE_KEY)
    /\ peerPublicKey = loadKey(PEER_PUBLIC_KEY)
    /\ sharedSecret = deriveSharedSecret(ownPrivateKey, peerPublicKey)

\* both own-key entries are persisted and are the halves of one pair
PersistedArePair ==
    \E n \in 1 .. MaxKeyPairs :
        /\ loadKey(OWN_PRIVATE_KEY) = privateKey(keyPair(n))
        /\ loadKey(OWN_PUBLIC_KEY) = publicKey(keyPair(n))

\* C22: a getOwnPublicKey() about to return returns the public half of the
\* pair whose private half is in memory, and two persisted own-key entries
\* are the halves of one pair, also when first-access calls overlap.
C22_OwnKeysOfOnePair ==
    /\ \A p \in Procs :
          (calls[p].op = "getOwnPublicKey" /\ calls[p].pc = "return")
          => OwnKeysArePair
    /\ (loadKey(OWN_PRIVATE_KEY) # Null /\ loadKey(OWN_PUBLIC_KEY) # Null)
       => PersistedArePair
====
